---- MODULE Spec2Model ----
(***************************************************************************)
(* Supermarket queueing network (supermarket_sim.cc): a Shop generating    *)
(* customers, a Balancer routing them, and a vector of Cashiers, driven    *)
(* by the discrete-event scheduler of the simulation kernel.               *)
(*                                                                         *)
(* Time is counted in ticks of 0.1 s (the Shop's lead-in is one tick,      *)
(* uniform(0.5, 2.0) is 5..20 ticks).  Channels carry no delay, so a       *)
(* send() puts the message on the future-event set at the current time.    *)
(* arrivalLog and serviceLog keep, per cashier, the customer ids of the    *)
(* "received customer" and "starts serving customer" log lines.            *)
(***************************************************************************)
EXTENDS Integers, Sequences, FiniteSets, TLC

\* ------------------------------------------------------------------ bounds
MaxTime == 60          \* events later than this are never executed
MaxCustWide == 2       \* customers generated under the wide random source
MaxCustStub == 7       \* customers generated under the deterministic stub
MaxCashiers == 3       \* largest gate size of Balancer.out

\* --------------------------------------------------------- program constants
ROUND_ROBIN == 0
SHORTEST_QUEUE == 1
RANDOM == 2
LeadIn == 1            \* simTime() + 0.1
MinItems == 1          \* intuniform(1, 25)
MaxItems == 25
MinPerItem == 5        \* uniform(0.5, 2.0)
MaxPerItem == 20

\* ------------------------------------------------------------ input sets
\* The random number source is a collaborator of the model: a profile names
\* the values each draw may return in a run.
\*   items   : values of intuniform(1, 25)
\*   perItem : values of uniform(0.5, 2.0), in ticks
\*   expUnit : values of exponential(1), in ticks; exponential(m) = m * that
WideRng == [name |-> "wide", items |-> {1, 2}, perItem |-> {5, 20},
            expUnit |-> {0, 5, 30}, maxCust |-> MaxCustWide]
StubRng == [name |-> "stub", items |-> {2, 3}, perItem |-> {10},
            expUnit |-> {5}, maxCust |-> MaxCustStub]
\* each draw stays in the range the code asks for
RngInRange(p) ==
    /\ p.items \subseteq MinItems .. MaxItems
    /\ p.perItem \subseteq MinPerItem .. MaxPerItem
    /\ \A e \in p.expUnit : e >= 0

RngProfiles == {p \in {WideRng, StubRng} : RngInRange(p)}
\* The stub serves deterministic runs: it is combined with the two
\* strategies that draw nothing.
RngFor(s) == IF s = RANDOM THEN {WideRng} ELSE RngProfiles

ValidStrategies == {ROUND_ROBIN, SHORTEST_QUEUE, RANDOM}
AnyStrategies == ValidStrategies \cup {3}
ValidIntervals == {1}
AnyIntervals == {-1, 0, 1}
\* sim-time-limit values at which a run may be stopped
SimTimeLimits == {0, 1, 6, 21, 30, 51, MaxTime}

VARIABLES
    \* configuration
    numCashiers, strategy, arrivalInterval, rng,
    \* simulation kernel
    phase, now, fes, nextSeq, lastEvent,
    \* Shop
    customerCounter, customersGenerated,
    \* Balancer
    roundRobinCounter, cashierQueueLengths, cashierAssignments,
    customersForwarded, loadBalancing, balancingEfficiency,
    \* Cashier (one entry per cashier index)
    customerQueue, isBusy, currentCustomer, lastServiceEndTime,
    totalIdleTime, customersServed, totalServiceTime, totalItemsProcessed,
    queueLength, lastFinish, arrivalLog, serviceLog

cfgVars == <<numCashiers, strategy, arrivalInterval, rng>>
simVars == <<phase, now, fes, nextSeq, lastEvent>>
shopVars == <<customerCounter, customersGenerated>>
balVars == <<roundRobinCounter, cashierQueueLengths, cashierAssignments,
             customersForwarded, loadBalancing, balancingEfficiency>>
cashVars == <<customerQueue, isBusy, currentCustomer, lastServiceEndTime,
              totalIdleTime, customersServed, totalServiceTime,
              totalItemsProcessed, queueLength, lastFinish,
              arrivalLog, serviceLog>>
vars == <<cfgVars, simVars, shopVars, balVars, cashVars>>

Cashiers == 0 .. (numCashiers - 1)

\* ------------------------------------------------------------- data types
\* CustomerMsg; id 0 stands for the null pointer
NoCustomer == [id |-> 0, items |-> 0, arrivalTime |-> 0,
               serviceStartTime |-> 0, totalWaitingTime |-> 0]

NoEvent == [time |-> 0, seq |-> 0, kind |-> "none", dest |-> 0,
            customer |-> NoCustomer]

NoEfficiency == [num |-> 0, den |-> 0]

\* ------------------------------------------------------ the event scheduler
\* Position of a new event in the future-event set, which is kept ordered by
\* time and, among equal times, by insertion: after every event that is due
\* no later than the new one.
\* (variant: a new event goes before the pending events of its own time)
InsertLifo(f, ev) ==
    LET k == Cardinality({j \in 1 .. Len(f) : f[j].time < ev.time})
    IN  SubSeq(f, 1, k) \o <<ev>> \o SubSeq(f, k + 1, Len(f))

Insert(f, ev) ==
    LET k == Cardinality({j \in 1 .. Len(f) : f[j].time <= ev.time})
    IN  SubSeq(f, 1, k) \o <<ev>> \o SubSeq(f, k + 1, Len(f))

\* scheduleAt(t, timer) / send(msg, gate): an event record with the next
\* insertion number
Event(t, s, kind, dest, customer) ==
    [time |-> t, seq |-> s, kind |-> kind, dest |-> dest, customer |-> customer]

\* cancelAndDelete(timer): the timer's event leaves the future-event set
Cancel(f, kind) == SelectSeq(f, LAMBDA e : e.kind # kind)

\* The run loop takes the first event of the set and advances the clock to it.
CanFire(kind) ==
    /\ phase = "running"
    /\ fes # <<>>
    /\ Head(fes).kind = kind
    /\ Head(fes).time <= MaxTime


\* ------------------------------------------------------------ random draws
\* (variant: the loop over the items starts at 1, one draw short)
RECURSIVE ServiceTimesOneShort(_)
ServiceTimesOneShort(items) ==
    IF items <= 1 THEN {0}
    ELSE {s + d : s \in ServiceTimesOneShort(items - 1), d \in rng.perItem}

\* serviceTime: the sum of one uniform(0.5, 2.0) draw per item
RECURSIVE ServiceTimes(_)
ServiceTimes(items) ==
    IF items <= 0 THEN {0}
    ELSE {s + d : s \in ServiceTimes(items - 1), d \in rng.perItem}

\* exponential(arrivalInterval).  Once the run has generated its last
\* customer the draw is one that lies beyond the horizon.
Exponential(mean, t, generated) ==
    IF mean > 0 /\ generated >= rng.maxCust
    THEN {MaxTime + 1 - t}
    ELSE {mean * e : e \in rng.expUnit}

\* intuniform(0, numCashiers - 1); drawn only by the RANDOM strategy
IntUniform == IF strategy = RANDOM THEN Cashiers ELSE {0}

\* ------------------------------------------------------------------- Shop
NewCustomer(id, items, t) ==
    [id |-> id, items |-> items, arrivalTime |-> t,
     serviceStartTime |-> 0, totalWaitingTime |-> 0]

\* (variant: the timer is not scheduled again)
scheduleNextArrivalNot(f, t, nextArrival, s) == f

\* scheduleAt(simTime() + nextArrival, generateCustomerTimer)
scheduleNextArrival(f, t, nextArrival, s) ==
    Insert(f, Event(t + nextArrival, s, "generateCustomer", 0, NoCustomer))

ShopHandleMessage ==
    /\ CanFire("generateCustomer")
    /\ customersGenerated < rng.maxCust
    /\ LET ev == Head(fes)
           t == ev.time
       IN  \E items \in rng.items :
           \E nextArrival \in Exponential(arrivalInterval, t, customersGenerated + 1) :
             LET customer == NewCustomer(customerCounter, items, t)
                 f1 == Insert(Tail(fes), Event(t, nextSeq, "toBalancer", 0, customer))
             IN  /\ now' = t
                 /\ lastEvent' = ev
                 /\ customerCounter' = customerCounter + 1
                 /\ customersGenerated' = customersGenerated + 1
                 /\ IF t + nextArrival < t
                    THEN \* scheduleAt() into the past raises a runtime error
                         /\ phase' = "error"
                         /\ fes' = f1
                         /\ nextSeq' = nextSeq + 1
                    ELSE /\ phase' = phase
                         /\ fes' = scheduleNextArrival(f1, t, nextArrival, nextSeq + 1)
                         /\ nextSeq' = nextSeq + 2
    /\ UNCHANGED <<cfgVars, balVars, cashVars>>

\* --------------------------------------------------------------- Balancer
\* std::min_element / std::max_element: the first smallest / largest entry
RECURSIVE MinScan(_, _, _, _)
MinScan(v, i, best, n) ==
    IF i >= n THEN best
    ELSE MinScan(v, i + 1, IF v[i] < v[best] THEN i ELSE best, n)

MinElement(v, n) == IF n <= 0 THEN 0 ELSE MinScan(v, 1, 0, n)

RECURSIVE MaxScan(_, _, _, _)
MaxScan(v, i, best, n) ==
    IF i >= n THEN best
    ELSE MaxScan(v, i + 1, IF v[best] < v[i] THEN i ELSE best, n)

MaxElement(v, n) == IF n <= 0 THEN 0 ELSE MaxScan(v, 1, 0, n)

\* (variant: the counter is advanced before it is used, and the scan keeps
\* the last smallest entry)
RECURSIVE MinScanLast(_, _, _, _)
MinScanLast(v, i, best, n) ==
    IF i >= n THEN best
    ELSE MinScanLast(v, i + 1, IF v[i] <= v[best] THEN i ELSE best, n)

selectCashierOffByOne(r) ==
    CASE strategy = ROUND_ROBIN -> (roundRobinCounter + 1) % numCashiers
      [] strategy = SHORTEST_QUEUE ->
            IF numCashiers <= 0 THEN 0
            ELSE MinScanLast(cashierQueueLengths, 1, 0, numCashiers)
      [] strategy = RANDOM -> r
      [] OTHER -> 0

selectCashier(r) ==
    CASE strategy = ROUND_ROBIN -> roundRobinCounter % numCashiers
      [] strategy = SHORTEST_QUEUE -> MinElement(cashierQueueLengths, numCashiers)
      [] strategy = RANDOM -> r
      [] OTHER -> 0

\* What handling one customer can come to.  Without cashiers the handler
\* divides by zero or writes past an empty vector and send() fails; with an
\* unknown strategy strategyName is read uninitialised by sprintf.
BalancerOutcomes ==
    IF numCashiers < 1 THEN {"error"}
    ELSE IF strategy \in ValidStrategies THEN {"ok"}
    ELSE {"ok", "error"}

BalancerHandleMessage ==
    /\ CanFire("toBalancer")
    /\ LET ev == Head(fes)
           t == ev.time
       IN  \E r \in IntUniform, outcome \in BalancerOutcomes :
             /\ now' = t
             /\ lastEvent' = ev
             /\ IF outcome = "error"
                THEN /\ phase' = "error"
                     /\ fes' = Tail(fes)
                     /\ nextSeq' = nextSeq
                     /\ UNCHANGED balVars
                ELSE LET selectedCashier == selectCashier(r)
                     IN  /\ phase' = phase
                         /\ roundRobinCounter' =
                               IF strategy = ROUND_ROBIN THEN roundRobinCounter + 1
                               ELSE roundRobinCounter
                         /\ cashierQueueLengths' =
                               [cashierQueueLengths EXCEPT ![selectedCashier] = @ + 1]
                         /\ cashierAssignments' =
                               [cashierAssignments EXCEPT ![selectedCashier] = @ + 1]
                         /\ customersForwarded' = customersForwarded + 1
                         /\ loadBalancing' = Append(loadBalancing, selectedCashier)
                         /\ fes' = Insert(Tail(fes), Event(t, nextSeq, "toCashier",
                                                          selectedCashier, ev.customer))
                         /\ nextSeq' = nextSeq + 1
                         /\ UNCHANGED balancingEfficiency
    /\ UNCHANGED <<cfgVars, shopVars, cashVars>>


\* ---------------------------------------------------------------- Cashier
\* The members of cashier i, with the samples it has emitted on queueLength
\* during the event being handled and the due time of the timer it has
\* scheduled during it (-1: none).
CashierState(i) ==
    [customerQueue |-> customerQueue[i], isBusy |-> isBusy[i],
     currentCustomer |-> currentCustomer[i],
     lastServiceEndTime |-> lastServiceEndTime[i],
     totalIdleTime |-> totalIdleTime[i],
     customersServed |-> customersServed[i],
     totalServiceTime |-> totalServiceTime[i],
     totalItemsProcessed |-> totalItemsProcessed[i],
     queueLength |-> <<>>, scheduled |-> -1,
     arrivalLog |-> arrivalLog[i], serviceLog |-> serviceLog[i]]

\* (variant: the test of isBusy is inverted)
IdleTimeInverted(busy, t, lastEnd) == IF busy THEN t - lastEnd ELSE 0

\* idle time added by startService
IdleTime(busy, t, lastEnd) == IF ~busy THEN t - lastEnd ELSE 0

\* (variant: measured from the service start time that was just set)
WaitingTimeFromStart(t, customer) == t - t

\* waiting time recorded by startService
WaitingTime(t, customer) == t - customer.arrivalTime

\* (variant: customersServed is not counted)
startServiceNoCount(c, customer, t, serviceTime) ==
    [c EXCEPT
       !.totalIdleTime = @ + IdleTime(c.isBusy, t, c.lastServiceEndTime),
       !.isBusy = TRUE,
       !.currentCustomer =
           [customer EXCEPT !.serviceStartTime = t,
                            !.totalWaitingTime = WaitingTime(t, customer)],
       !.totalServiceTime = @ + serviceTime,
       !.totalItemsProcessed = @ + customer.items,
       !.serviceLog = Append(@, customer.id),
       !.scheduled = t + serviceTime]

startService(c, customer, t, serviceTime) ==
    [c EXCEPT
       !.totalIdleTime = @ + IdleTime(c.isBusy, t, c.lastServiceEndTime),
       !.isBusy = TRUE,
       !.currentCustomer =
           [customer EXCEPT !.serviceStartTime = t,
                            !.totalWaitingTime = WaitingTime(t, customer)],
       !.customersServed = @ + 1,
       !.totalServiceTime = @ + serviceTime,
       !.totalItemsProcessed = @ + customer.items,
       !.serviceLog = Append(@, customer.id),
       !.scheduled = t + serviceTime]

\* (variant: the customer taken into service is left in the queue)
processNextCustomerNoPop(c, t, serviceTime) ==
    IF c.customerQueue # <<>>
    THEN startService(
           [c EXCEPT !.queueLength = Append(@, Len(c.customerQueue))],
           Head(c.customerQueue), t, serviceTime)
    ELSE [c EXCEPT !.isBusy = FALSE, !.lastServiceEndTime = t]

\* (variant: the customer taken into service is the last of the queue)
processNextCustomerLifo(c, t, serviceTime) ==
    IF c.customerQueue # <<>>
    THEN startService(
           [c EXCEPT !.customerQueue = SubSeq(@, 1, Len(@) - 1),
                     !.queueLength = Append(@, Len(c.customerQueue) - 1)],
           c.customerQueue[Len(c.customerQueue)], t, serviceTime)
    ELSE [c EXCEPT !.isBusy = FALSE, !.lastServiceEndTime = t]

\* (variant: the empty-queue branch leaves isBusy as it is)
processNextCustomerKeepBusy(c, t, serviceTime) ==
    IF c.customerQueue # <<>>
    THEN startService(
           [c EXCEPT !.customerQueue = Tail(@),
                     !.queueLength = Append(@, Len(Tail(c.customerQueue)))],
           Head(c.customerQueue), t, serviceTime)
    ELSE [c EXCEPT !.lastServiceEndTime = t]

processNextCustomer(c, t, serviceTime) ==
    IF c.customerQueue # <<>>
    THEN startService(
           [c EXCEPT !.customerQueue = Tail(@),
                     !.queueLength = Append(@, Len(Tail(c.customerQueue)))],
           Head(c.customerQueue), t, serviceTime)
    ELSE [c EXCEPT !.isBusy = FALSE, !.lastServiceEndTime = t]

finishService(c, t) ==
    IF c.currentCustomer # NoCustomer
    THEN [c EXCEPT !.lastServiceEndTime = t, !.currentCustomer = NoCustomer]
    ELSE c

\* (variant: the sample is emitted before the customer is pushed)
arriveEmitFirst(c, customer) ==
    [c EXCEPT !.customerQueue = Append(@, customer),
              !.arrivalLog = Append(@, customer.id),
              !.queueLength = Append(@, Len(c.customerQueue))]

\* the arrival branch of handleMessage up to the test of isBusy
arrive(c, customer) ==
    LET q == Append(c.customerQueue, customer)
    IN  [c EXCEPT !.customerQueue = q,
                  !.arrivalLog = Append(@, customer.id),
                  !.queueLength = Append(@, Len(q))]

\* The service time drawn if the handler goes on to start a service
ServiceDraws(c, starts) ==
    IF starts /\ c.customerQueue # <<>>
    THEN ServiceTimes(Head(c.customerQueue).items)
    ELSE {0}

\* Write cashier i's members back and put its timer on the future-event set
StoreCashier(i, c, ev) ==
    /\ now' = ev.time
    /\ lastEvent' = ev
    /\ phase' = phase
    /\ customerQueue' = [customerQueue EXCEPT ![i] = c.customerQueue]
    /\ isBusy' = [isBusy EXCEPT ![i] = c.isBusy]
    /\ currentCustomer' = [currentCustomer EXCEPT ![i] = c.currentCustomer]
    /\ lastServiceEndTime' = [lastServiceEndTime EXCEPT ![i] = c.lastServiceEndTime]
    /\ totalIdleTime' = [totalIdleTime EXCEPT ![i] = c.totalIdleTime]
    /\ customersServed' = [customersServed EXCEPT ![i] = c.customersServed]
    /\ totalServiceTime' = [totalServiceTime EXCEPT ![i] = c.totalServiceTime]
    /\ totalItemsProcessed' = [totalItemsProcessed EXCEPT ![i] = c.totalItemsProcessed]
    /\ queueLength' = [queueLength EXCEPT ![i] = c.queueLength]
    /\ arrivalLog' = [arrivalLog EXCEPT ![i] = c.arrivalLog]
    /\ serviceLog' = [serviceLog EXCEPT ![i] = c.serviceLog]
    /\ IF c.scheduled >= 0
       THEN /\ fes' = Insert(Tail(fes), Event(c.scheduled, nextSeq,
                                              "processCustomer", i, NoCustomer))
            /\ nextSeq' = nextSeq + 1
       ELSE /\ fes' = Tail(fes)
            /\ nextSeq' = nextSeq

\* handleMessage, msg is a CustomerMsg
CashierHandleCustomer(i) ==
    /\ CanFire("toCashier")
    /\ Head(fes).dest = i
    /\ LET ev == Head(fes)
           c1 == arrive(CashierState(i), ev.customer)
       IN  \E serviceTime \in ServiceDraws(c1, ~c1.isBusy) :
             LET c2 == IF ~c1.isBusy
                       THEN processNextCustomer(c1, ev.time, serviceTime)
                       ELSE c1
             IN  StoreCashier(i, c2, ev)
    /\ UNCHANGED <<cfgVars, shopVars, balVars, lastFinish>>

\* handleMessage, msg is processCustomerTimer
CashierHandleTimer(i) ==
    /\ CanFire("processCustomer")
    /\ Head(fes).dest = i
    /\ LET ev == Head(fes)
           c1 == finishService(CashierState(i), ev.time)
       IN  \E serviceTime \in ServiceDraws(c1, TRUE) :
             StoreCashier(i, processNextCustomer(c1, ev.time, serviceTime), ev)
    /\ lastFinish' = [lastFinish EXCEPT ![i] = Head(fes).time]
    /\ UNCHANGED <<cfgVars, shopVars, balVars>>

\* ------------------------------------------------------------ end of run
\* (variant: the terminal interval is added whether or not the cashier is idle)
FinalIdleTimeAlways(busy, t, lastEnd) == t - lastEnd

\* idle time added by Cashier::finish
FinalIdleTime(busy, t, lastEnd) == IF ~busy THEN t - lastEnd ELSE 0

\* (variant: the guard tests the smallest count instead of the largest)
BalancingEfficiencyMinGuard(assignments, n) ==
    LET maxAssignments == assignments[MaxElement(assignments, n)]
        minAssignments == assignments[MinElement(assignments, n)]
    IN  IF minAssignments > 0
        THEN [num |-> minAssignments * 100, den |-> maxAssignments]
        ELSE [num |-> 100, den |-> 1]

\* balancingEfficiency of Balancer::finish, as the fraction num / den
BalancingEfficiency(assignments, n) ==
    LET maxAssignments == assignments[MaxElement(assignments, n)]
        minAssignments == assignments[MinElement(assignments, n)]
    IN  IF maxAssignments > 0
        THEN [num |-> minAssignments * 100, den |-> maxAssignments]
        ELSE [num |-> 100, den |-> 1]

\* Without cashiers Balancer::finish dereferences the end of an empty vector
FinishOutcomes ==
    IF numCashiers < 1
    THEN {[phase |-> "error", eff |-> NoEfficiency]}
         \cup {[phase |-> "finished", eff |-> [num |-> x, den |-> 1]] : x \in {0, 100}}
    ELSE {[phase |-> "finished",
           eff |-> BalancingEfficiency(cashierAssignments, numCashiers)]}

\* The run stops at time t, no later than the next event, and finish() is
\* called on every module.
Finish(t) ==
    /\ phase = "running"
    /\ now <= t
    /\ fes # <<>> => t <= Head(fes).time
    /\ now' = t
    /\ \E o \in FinishOutcomes :
         /\ phase' = o.phase
         /\ balancingEfficiency' = o.eff
    /\ totalIdleTime' = [i \in Cashiers |->
          totalIdleTime[i] + FinalIdleTime(isBusy[i], t, lastServiceEndTime[i])]
    /\ fes' = Cancel(Cancel(fes, "processCustomer"), "generateCustomer")
    /\ UNCHANGED <<cfgVars, nextSeq, lastEvent, shopVars, roundRobinCounter,
                   cashierQueueLengths, cashierAssignments, customersForwarded,
                   loadBalancing, customerQueue, isBusy, currentCustomer,
                   lastServiceEndTime, customersServed, totalServiceTime,
                   totalItemsProcessed, queueLength, lastFinish,
                   arrivalLog, serviceLog>>

\* ---------------------------------------------------------- specification
\* The state after every module's initialize()
InitState ==
    /\ phase = "running"
    /\ now = 0
    /\ fes = <<Event(0 + LeadIn, 1, "generateCustomer", 0, NoCustomer)>>
    /\ nextSeq = 2
    /\ lastEvent = NoEvent
    /\ customerCounter = 1
    /\ customersGenerated = 0
    /\ roundRobinCounter = 0
    /\ cashierQueueLengths = [i \in Cashiers |-> 0]
    /\ cashierAssignments = [i \in Cashiers |-> 0]
    /\ customersForwarded = 0
    /\ loadBalancing = <<>>
    /\ balancingEfficiency = NoEfficiency
    /\ customerQueue = [i \in Cashiers |-> <<>>]
    /\ isBusy = [i \in Cashiers |-> FALSE]
    /\ currentCustomer = [i \in Cashiers |-> NoCustomer]
    /\ lastServiceEndTime = [i \in Cashiers |-> 0]
    /\ totalIdleTime = [i \in Cashiers |-> 0]
    /\ customersServed = [i \in Cashiers |-> 0]
    /\ totalServiceTime = [i \in Cashiers |-> 0]
    /\ totalItemsProcessed = [i \in Cashiers |-> 0]
    /\ queueLength = [i \in Cashiers |-> <<0>>]
    /\ lastFinish = [i \in Cashiers |-> 0]
    /\ arrivalLog = [i \in Cashiers |-> <<>>]
    /\ serviceLog = [i \in Cashiers |-> <<>>]

\* a valid configuration
Init ==
    /\ numCashiers \in 1 .. MaxCashiers
    /\ strategy \in ValidStrategies
    /\ arrivalInterval \in ValidIntervals
    /\ rng \in RngFor(strategy)
    /\ InitState

\* any configuration, valid or not
InitAny ==
    /\ numCashiers \in 0 .. MaxCashiers
    /\ strategy \in AnyStrategies
    /\ arrivalInterval \in AnyIntervals
    /\ rng \in RngFor(strategy)
    /\ InitState

Next ==
    \/ ShopHandleMessage
    \/ BalancerHandleMessage
    \/ \E i \in Cashiers : CashierHandleCustomer(i)
    \/ \E i \in Cashiers : CashierHandleTimer(i)
    \/ \E t \in SimTimeLimits : Finish(t)

Spec == Init /\ [][Next]_vars

SpecAny == InitAny /\ [][Next]_vars

\* The run loop: while the run is not stopped the scheduler executes the
\* next pending event.
RunLoop ==
    \/ ShopHandleMessage
    \/ BalancerHandleMessage
    \/ \E i \in Cashiers : CashierHandleCustomer(i)
    \/ \E i \in Cashiers : CashierHandleTimer(i)

SpecLive == Init /\ [][Next]_vars /\ WF_vars(RunLoop)

TypeOK ==
    /\ phase \in {"running", "finished", "error"}
    /\ now \in 0 .. MaxTime


\* ------------------------------------------------------------ properties
\* A step executes an event iff lastEvent changes (insertion numbers are
\* never reused).
Fires == lastEvent' # lastEvent

\* e is due no later than d, insertion order deciding among equal times
Before(e, d) == e.time < d.time \/ (e.time = d.time /\ e.seq < d.seq)

\* messages sent to cashier i and not yet delivered
InFlight(i) ==
    Cardinality({k \in 1 .. Len(fes) : fes[k].kind = "toCashier" /\ fes[k].dest = i})

\* C1: the run loop executes events in non-decreasing dueTime order, events
\* of equal dueTime in the order they were scheduled, and the clock never
\* decreases: the event a step executes is due before every other pending
\* event and after the event executed before it, the clock moves to its
\* time, and no step moves the clock back.
C1_EventOrder ==
    [][ /\ now' >= now
        /\ Fires =>
             /\ now' = lastEvent'.time
             /\ lastEvent'.time >= lastEvent.time
             /\ Before(lastEvent, lastEvent')
             /\ \A k \in 1 .. Len(fes) :
                  fes[k] = lastEvent' \/ Before(lastEvent', fes[k]) ]_vars

\* Two events of one due time are pending, the earlier scheduled first, at
\* the time of the event just executed.
C1_Witness ==
    /\ phase = "running"
    /\ lastEvent.seq > 0
    /\ Len(fes) >= 2
    /\ fes[1].time = now /\ fes[2].time = now
    /\ fes[1].seq < fes[2].seq
    /\ lastEvent.time = now

\* C2: for every cashier, isBusy holds iff a customer occupies the
\* in-service slot, and that customer is not in the cashier's queue.
C2_BusyIffInService ==
    \A i \in Cashiers :
      /\ isBusy[i] <=> currentCustomer[i] # NoCustomer
      /\ \A k \in 1 .. Len(customerQueue[i]) :
           /\ customerQueue[i][k] # NoCustomer
           /\ customerQueue[i][k].id # currentCustomer[i].id

\* A cashier serves one customer while another waits, and another cashier
\* has gone back to idle after a service.
C2_Witness ==
    /\ \E i \in Cashiers : isBusy[i] /\ customerQueue[i] # <<>>
    /\ \E i \in Cashiers : ~isBusy[i] /\ customersServed[i] > 0

\* C3: the queue-length sample emitted on an arrival, right after the
\* customer is inserted, is the number of customers that have arrived at
\* that cashier and have not begun service: those routed to it and
\* delivered, less those whose service had begun before.
C3_ArriveSample ==
    [][ \A i \in Cashiers :
          (Fires /\ lastEvent'.kind = "toCashier" /\ lastEvent'.dest = i) =>
             /\ queueLength'[i] # <<>>
             /\ Head(queueLength'[i]) =
                  (cashierAssignments[i] - (InFlight(i) - 1)) - customersServed[i]
             /\ Head(queueLength'[i]) =
                  Len(customerQueue'[i]) + (customersServed'[i] - customersServed[i]) ]_vars

\* A customer has just arrived at a busy cashier as the second in its queue,
\* and one has arrived at an idle cashier before.
C3_Witness ==
    /\ lastEvent.kind = "toCashier"
    /\ isBusy[lastEvent.dest]
    /\ queueLength[lastEvent.dest] = <<2>>
    /\ Len(customerQueue[lastEvent.dest]) = 2
    /\ customersServed[lastEvent.dest] >= 1

\* C4: when a cashier that has been idle since t0 (the start of the run or
\* the completion that emptied it) begins a service at t1, its cumulative
\* idle time grows by exactly t1 - t0; when it goes from one customer
\* straight to the next, and on every other event, it does not change.
C4_IdleAccounting ==
    [][ phase' = "running" =>
        \A i \in Cashiers :
          IF customersServed'[i] = customersServed[i] + 1 /\ ~isBusy[i]
          THEN totalIdleTime'[i] = totalIdleTime[i] + (now' - lastFinish[i])
          ELSE totalIdleTime'[i] = totalIdleTime[i] ]_vars

\* A cashier has begun its second service after an idle interval that
\* followed the completion of its first, having also been idle from the
\* start of the run to its first service.
C4_Witness ==
    \E i \in Cashiers :
      /\ isBusy[i] /\ customersServed[i] >= 2
      /\ lastFinish[i] > 0
      /\ currentCustomer[i].serviceStartTime > lastFinish[i]
      /\ totalIdleTime[i] =
            LeadIn + (currentCustomer[i].serviceStartTime - lastFinish[i])

\* C5: when the run stops, an idle cashier's terminal interval, from the
\* time it became idle to the end time, is added to its cumulative idle
\* time, a busy cashier's idle time is left as it is, and nothing is added
\* after that.
C5_TerminalIdle ==
    [][ /\ (phase = "running" /\ phase' = "finished") =>
           \A i \in Cashiers :
             totalIdleTime'[i] =
                totalIdleTime[i] + (IF isBusy[i] THEN 0 ELSE now' - lastFinish[i])
        /\ phase = "finished" => totalIdleTime' = totalIdleTime ]_vars

\* The run has stopped with one cashier idle for a while after a service
\* and another one in the middle of a service.
C5_Witness ==
    /\ phase = "finished"
    /\ \E i \in Cashiers :
         ~isBusy[i] /\ customersServed[i] >= 1 /\ now > lastFinish[i]
         /\ totalIdleTime[i] >= now - lastFinish[i]
    /\ \E i \in Cashiers :
         isBusy[i] /\ now > currentCustomer[i].serviceStartTime

\* C6: under ROUND_ROBIN the k-th routed customer, counted from 0, goes to
\* cashier k mod N; with 3 cashiers 7 arrivals go to 0,1,2,0,1,2,0.
C6_RoundRobin ==
    strategy = ROUND_ROBIN =>
      /\ \A k \in 1 .. Len(loadBalancing) :
           loadBalancing[k] = (k - 1) % numCashiers
      /\ (numCashiers = 3 /\ Len(loadBalancing) >= 7) =>
           SubSeq(loadBalancing, 1, 7) = <<0, 1, 2, 0, 1, 2, 0>>

C6_Witness ==
    /\ strategy = ROUND_ROBIN
    /\ numCashiers = 3
    /\ loadBalancing = <<0, 1, 2, 0, 1, 2, 0>>

\* C7: under SHORTEST_QUEUE every routing decision picks a cashier whose
\* assigned count is smallest at the time of the decision, the lowest index
\* among those; from equal counts the first arrival goes to cashier 0 and,
\* with two cashiers or more, the second to cashier 1.
C7_ShortestQueue ==
    [][ (strategy = SHORTEST_QUEUE /\ customersForwarded' = customersForwarded + 1) =>
        LET s == loadBalancing'[Len(loadBalancing')]
        IN  /\ s \in Cashiers
            /\ \A j \in Cashiers : cashierAssignments[s] <= cashierAssignments[j]
            /\ \A j \in Cashiers : j < s => cashierAssignments[j] > cashierAssignments[s]
            /\ customersForwarded = 0 => s = 0
            /\ (customersForwarded = 1 /\ numCashiers >= 2) => s = 1 ]_vars

\* Three cashiers: the first two arrivals went to 0 and 1, and a later one
\* was routed while the counts were not all equal.
C7_Witness ==
    /\ strategy = SHORTEST_QUEUE
    /\ numCashiers = 3
    /\ Len(loadBalancing) >= 5
    /\ loadBalancing[1] = 0 /\ loadBalancing[2] = 1
    /\ loadBalancing[5] = 1

\* smallest and largest assigned count, read off the set of counts
MinAssigned == CHOOSE m \in {cashierAssignments[i] : i \in Cashiers} :
                 \A i \in Cashiers : m <= cashierAssignments[i]
MaxAssigned == CHOOSE m \in {cashierAssignments[i] : i \in Cashiers} :
                 \A i \in Cashiers : m >= cashierAssignments[i]

\* C8: at the end of a run balancingEfficiency is 100 when all assigned
\* counts are equal, all 0 included, and min/max*100 otherwise; its
\* denominator is never 0.
C8_BalancingEfficiency ==
    phase = "finished" =>
      /\ balancingEfficiency.den > 0
      /\ IF MinAssigned = MaxAssigned
         THEN balancingEfficiency.num = 100 * balancingEfficiency.den
         ELSE balancingEfficiency.num * MaxAssigned
                = MinAssigned * 100 * balancingEfficiency.den

\* The run has ended with unequal counts, the smallest of them 0.
C8_Witness ==
    /\ phase = "finished"
    /\ numCashiers >= 2
    /\ MinAssigned = 0 /\ MaxAssigned >= 2
    /\ balancingEfficiency.num = 0

\* The single-cashier run of the stub: 1.0 s per item, arrivals 0.5 s apart
StubRun == numCashiers = 1 /\ rng = StubRng

\* the processCustomer timer of cashier 0 is pending for time t
TimerAt(t) ==
    \E k \in 1 .. Len(fes) :
      fes[k].kind = "processCustomer" /\ fes[k].dest = 0 /\ fes[k].time = t

\* customer 2 waits in the queue of cashier 0
SecondQueued ==
    \E k \in 1 .. Len(customerQueue[0]) : customerQueue[0][k].id = 2

\* C9 as stated: customer 1 (2 items) arrives at t=0 and is in service from
\* 0 to 2, customer 2 (3 items) arrives at 0.5, is queued until 2 and in
\* service from 2 to 5, with waiting times 0 and 1.5.
C9_AsStated ==
    StubRun =>
      /\ (currentCustomer[0].id = 1 /\ currentCustomer[0].items = 2) =>
            /\ currentCustomer[0].arrivalTime = 0
            /\ currentCustomer[0].serviceStartTime = 0
            /\ currentCustomer[0].totalWaitingTime = 0
            /\ phase = "running" => TimerAt(20)
      /\ (currentCustomer[0].id = 2 /\ currentCustomer[0].items = 3
            /\ totalItemsProcessed[0] = 5) =>
            /\ currentCustomer[0].arrivalTime = 5
            /\ currentCustomer[0].serviceStartTime = 20
            /\ currentCustomer[0].totalWaitingTime = 15
            /\ phase = "running" => TimerAt(50)

\* C9, amended: the first arrival is at the lead-in, 0.1 s, so customer 1
\* (2 items) is in service from 0.1 to 2.1, customer 2 (3 items) arrives at
\* 0.6, is queued until 2.1 and in service from 2.1 to 5.1, with waiting
\* times 0 and 1.5.
C9_TwoCustomers ==
    StubRun =>
      /\ (currentCustomer[0].id = 1 /\ currentCustomer[0].items = 2) =>
            /\ currentCustomer[0].arrivalTime = 1
            /\ currentCustomer[0].serviceStartTime = 1
            /\ currentCustomer[0].totalWaitingTime = 0
            /\ now <= 21
            /\ phase = "running" => TimerAt(21)
      /\ (SecondQueued /\ totalItemsProcessed[0] = 2) =>
            /\ currentCustomer[0].id = 1
            /\ customerQueue[0][1].id = 2
            /\ customerQueue[0][1].arrivalTime = 6
            /\ 6 <= now /\ now <= 21
      /\ (currentCustomer[0].id = 2 /\ currentCustomer[0].items = 3
            /\ totalItemsProcessed[0] = 5) =>
            /\ currentCustomer[0].arrivalTime = 6
            /\ currentCustomer[0].serviceStartTime = 21
            /\ currentCustomer[0].totalWaitingTime = 15
            /\ 21 <= now /\ now <= 51
            /\ phase = "running" => TimerAt(51)

\* Customer 2, with 3 items, is in service after customer 1 with 2 items.
C9_Witness ==
    /\ StubRun
    /\ phase = "running"
    /\ currentCustomer[0].id = 2 /\ currentCustomer[0].items = 3
    /\ totalItemsProcessed[0] = 5
    /\ currentCustomer[0].totalWaitingTime = 15

\* a configuration the specification calls invalid
ConfigInvalid ==
    \/ numCashiers < 1
    \/ arrivalInterval <= 0
    \/ strategy \notin ValidStrategies

\* C10: an invalid configuration is rejected at initialization: no arrival
\* event is scheduled, no customer is generated or routed, and no event of
\* the run is executed.
C10_InvalidConfigRejected ==
    ConfigInvalid =>
      /\ \A k \in 1 .. Len(fes) : fes[k].kind # "generateCustomer"
      /\ customersGenerated = 0
      /\ customersForwarded = 0
      /\ lastEvent = NoEvent


\* C11: at the end of a run every cashier's cumulative service time plus
\* its cumulative idle time is the elapsed time, so that its utilization
\* does not exceed 100%, also when the run stops in the middle of a service.
C11_ServicePlusIdle ==
    phase = "finished" =>
      \A i \in Cashiers :
        /\ totalServiceTime[i] + totalIdleTime[i] = now
        /\ totalServiceTime[i] <= now

\* the elements of a sequence
Range(q) == {q[k] : k \in 1 .. Len(q)}

\* the customers generated so far
Generated == 1 .. customersGenerated

\* id is carried by a message that has been sent and not yet delivered
InTransit(id) ==
    Cardinality({k \in 1 .. Len(fes) : fes[k].customer.id = id})

\* the number of places of cashier i, queue and in-service slot, holding id
HeldBy(i, id) ==
    Cardinality({k \in 1 .. Len(customerQueue[i]) : customerQueue[i][k].id = id})
      + (IF currentCustomer[i].id = id THEN 1 ELSE 0)

RECURSIVE SumOver(_, _)
SumOver(f, n) == IF n <= 0 THEN 0 ELSE f[n - 1] + SumOver(f, n - 1)

\* the number of places in all cashiers holding id
Held(id) == SumOver([i \in Cashiers |-> HeldBy(i, id)], numCashiers)

\* id has begun a service that has ended
Completed(id) ==
    \E i \in Cashiers : id \in Range(serviceLog[i]) /\ currentCustomer[i].id # id

\* C12 as stated: every generated customer that has not completed service
\* is in exactly one cashier's queue or in-service slot.
C12_AsStated ==
    \A id \in Generated : ~Completed(id) => Held(id) = 1

\* C12, amended: every generated customer that has not completed service
\* has exactly one owner: a message in transit to the balancer or to a
\* cashier, one cashier's queue, or one cashier's in-service slot; it is
\* never in two places, and after its completion it is in none, for good.
C12_OneOwner ==
    /\ [](\A id \in Generated :
            /\ ~Completed(id) => InTransit(id) + Held(id) = 1
            /\ Completed(id) => InTransit(id) + Held(id) = 0)
    /\ [][\A id \in Generated : Completed(id) =>
            (Completed(id) /\ InTransit(id) + Held(id) = 0)']_vars

\* One customer has completed, one is in service, one waits in a queue and
\* one is in transit.
C12_Witness ==
    /\ \E id \in Generated : Completed(id)
    /\ \E i \in Cashiers : isBusy[i] /\ customerQueue[i] # <<>>
    /\ \E id \in Generated : InTransit(id) = 1

\* C13: every cashier starts idle and goes from idle to busy only on an
\* arrival, from busy to busy on a completion with a non-empty queue (the
\* head of the queue enters service), from busy to idle on a completion
\* with an empty queue; an arrival at a busy cashier leaves it busy and the
\* customer in service as it is; nothing else changes either.
C13_StateMachine ==
    /\ \A i \in Cashiers : ~isBusy[i] /\ currentCustomer[i] = NoCustomer
    /\ [][\A i \in Cashiers :
            LET arrival == Fires /\ lastEvent'.kind = "toCashier" /\ lastEvent'.dest = i
                completion == Fires /\ lastEvent'.kind = "processCustomer"
                                /\ lastEvent'.dest = i
            IN  /\ (arrival /\ ~isBusy[i]) =>
                     isBusy'[i] /\ currentCustomer'[i].id = lastEvent'.customer.id
                /\ (arrival /\ isBusy[i]) =>
                     /\ isBusy'[i]
                     /\ currentCustomer'[i] = currentCustomer[i]
                     /\ serviceLog'[i] = serviceLog[i]
                /\ completion => isBusy[i]
                /\ (completion /\ customerQueue[i] # <<>>) =>
                     /\ isBusy'[i]
                     /\ currentCustomer'[i].id = Head(customerQueue[i]).id
                     /\ customerQueue'[i] = Tail(customerQueue[i])
                /\ (completion /\ customerQueue[i] = <<>>) =>
                     ~isBusy'[i] /\ currentCustomer'[i] = NoCustomer
                /\ ~(arrival \/ completion) =>
                     /\ isBusy'[i] = isBusy[i]
                     /\ currentCustomer'[i] = currentCustomer[i] ]_vars

\* A cashier has gone from idle to busy, from one customer straight to the
\* next, and back to idle.
C13_Witness ==
    \E i \in Cashiers :
      /\ phase = "running"
      /\ ~isBusy[i]
      /\ customersServed[i] >= 2
      /\ totalIdleTime[i] = LeadIn

\* C14: at every cashier the customers begin service in the order in which
\* they arrived at it: the service log is a prefix of the arrival log, and
\* the customers waiting are the rest of the arrival log, in its order.
C14_Fifo ==
    \A i \in Cashiers :
      /\ Len(serviceLog[i]) <= Len(arrivalLog[i])
      /\ serviceLog[i] = SubSeq(arrivalLog[i], 1, Len(serviceLog[i]))
      /\ [k \in 1 .. Len(customerQueue[i]) |-> customerQueue[i][k].id]
           = SubSeq(arrivalLog[i], Len(serviceLog[i]) + 1, Len(arrivalLog[i]))

\* A cashier has served three customers, the later two after a wait in its
\* queue, while two more wait.
C14_Witness ==
    \E i \in Cashiers :
      /\ Len(serviceLog[i]) >= 3
      /\ Len(customerQueue[i]) >= 2
      /\ currentCustomer[i].totalWaitingTime > 0


\* pending events of one kind
Pending(kind) == {k \in 1 .. Len(fes) : fes[k].kind = kind}

\* pending completion timers of cashier i
Timers(i) == {k \in Pending("processCustomer") : fes[k].dest = i}

\* C15: the generator never stops on its own: its first arrival is due
\* strictly after the start, while the run goes on exactly one arrival event
\* is pending, and as long as the run is not stopped another customer is
\* generated, again and again, until the run has generated all its
\* customers.
C15_GeneratorRuns ==
    /\ [](phase = "running" =>
            /\ Cardinality(Pending("generateCustomer")) = 1
            /\ lastEvent = NoEvent =>
                 \A k \in Pending("generateCustomer") : fes[k].time > 0)
    /\ []<>(customersGenerated >= rng.maxCust \/ phase # "running")

\* Two customers have been generated and the next arrival is pending.
C15_Witness ==
    /\ phase = "running"
    /\ customersGenerated >= 2
    /\ customersGenerated < rng.maxCust
    /\ lastEvent.kind = "generateCustomer"
    /\ \E k \in Pending("generateCustomer") : fes[k].time > now

\* C16: under SHORTEST_QUEUE, whose counters only grow, the customers are
\* routed to the same cashiers as under ROUND_ROBIN, 0,1,...,N-1,0,1,...,
\* and the tracked counts of two cashiers never differ by more than 1.
C16_ShortestQueueIsRoundRobin ==
    strategy = SHORTEST_QUEUE =>
      /\ \A k \in 1 .. Len(loadBalancing) :
           loadBalancing[k] = (k - 1) % numCashiers
      /\ \A i, j \in Cashiers :
           /\ cashierQueueLengths[i] - cashierQueueLengths[j] <= 1
           /\ cashierQueueLengths[i] >= customersServed[i]

C16_Witness ==
    /\ strategy = SHORTEST_QUEUE
    /\ numCashiers = 3
    /\ loadBalancing = <<0, 1, 2, 0, 1, 2, 0>>
    /\ \E i \in Cashiers : cashierQueueLengths[i] > HeldBy(i, currentCustomer[i].id)
                                                     + Len(customerQueue[i])

\* C17: while the run goes on, a completion event of a cashier is pending
\* iff the cashier is busy, there is never more than one, and no service is
\* begun at a cashier while its completion timer is scheduled.
C17_OneTimer ==
    /\ [](phase = "running" =>
            \A i \in Cashiers :
              Cardinality(Timers(i)) = (IF isBusy[i] THEN 1 ELSE 0))
    /\ [][\A i \in Cashiers :
            Len(serviceLog'[i]) > Len(serviceLog[i]) =>
              /\ Len(serviceLog'[i]) = Len(serviceLog[i]) + 1
              /\ \A k \in Timers(i) : k = 1 ]_vars

\* One cashier is busy with its timer pending while a customer waits, and
\* another has gone back to idle.
C17_Witness ==
    /\ phase = "running"
    /\ \E i \in Cashiers :
         isBusy[i] /\ customerQueue[i] # <<>> /\ Cardinality(Timers(i)) = 1
    /\ \E i \in Cashiers :
         ~isBusy[i] /\ customersServed[i] > 0 /\ Timers(i) = {}

\* C18 as stated: customers generated = customersForwarded = the sum of the
\* assigned counts, and for every cashier assigned = served + queue length.
C18_AsStated ==
    /\ customersGenerated = customersForwarded
    /\ customersForwarded = SumOver(cashierAssignments, numCashiers)
    /\ \A i \in Cashiers :
         cashierAssignments[i] = customersServed[i] + Len(customerQueue[i])

\* C18, amended: customers generated = customersForwarded + the customers
\* in transit to the balancer; customersForwarded = the sum of the assigned
\* counts; and for every cashier assigned = served + queue length + the
\* customers in transit to it.
C18_Conservation ==
    /\ customersGenerated = customersForwarded + Cardinality(Pending("toBalancer"))
    /\ customersForwarded = SumOver(cashierAssignments, numCashiers)
    /\ \A i \in Cashiers :
         cashierAssignments[i]
           = customersServed[i] + Len(customerQueue[i]) + InFlight(i)

\* One customer is in transit to the balancer and another to a cashier.
C18_Witness ==
    /\ Pending("toBalancer") # {}
    /\ \E i \in Cashiers : InFlight(i) = 1 /\ cashierAssignments[i] = 1
    /\ customersGenerated = 2 /\ customersForwarded = 1

\* the cashier holding customer id, or about to receive it, has its
\* completion timer pending for a time beyond the horizon of the run
BeyondHorizon(id) ==
    \E i \in Cashiers :
      /\ \/ HeldBy(i, id) > 0
         \/ \E k \in Pending("toCashier") : fes[k].dest = i /\ fes[k].customer.id = id
      /\ \E k \in Timers(i) : fes[k].time > MaxTime

\* C19: while the run goes on, every customer routed to a cashier
\* eventually begins service and completes, unless the run is stopped or
\* the services ahead of it reach beyond the horizon of the run: again and
\* again every customer routed so far has completed, or else the run is
\* stopped or the customer's cashier is busy beyond the horizon.
C19_EveryCustomerServed ==
    []<>(\A id \in 1 .. customersForwarded :
           Completed(id) \/ phase # "running" \/ BeyondHorizon(id))

\* A customer that waited behind another one has completed.
C19_Witness ==
    \E i \in Cashiers :
      /\ phase = "running"
      /\ Len(serviceLog[i]) >= 3
      /\ Completed(serviceLog[i][2])
      /\ lastFinish[i] > 0

\* C20: with a valid configuration every event is scheduled for a time no
\* earlier than the clock at that moment, a service completion strictly
\* later, and no schedule error occurs.
C20_NoPastSchedule ==
    /\ [](phase # "error" /\ \A k \in 1 .. Len(fes) : fes[k].time >= now)
    /\ [][\A k \in 1 .. Len(fes') :
            fes'[k].seq >= nextSeq =>
              /\ fes'[k].time >= now'
              /\ fes'[k].kind = "processCustomer" => fes'[k].time > now' ]_vars

\* A service has just begun with its completion scheduled for later, while
\* a customer sent for the current time is still pending.
C20_Witness ==
    /\ phase = "running"
    /\ lastEvent.kind = "toCashier"
    /\ \E k \in Pending("processCustomer") :
         fes[k].seq = nextSeq - 1 /\ fes[k].time > now
    /\ \E k \in Pending("toBalancer") : fes[k].time = now

====
